---- MODULE Spec2Model ----
(***************************************************************************)
(* Context Key: the cryptographic envelope of packages/crypto (sign,       *)
(* verify, encrypt, decrypt), the vault wizard that creates a key file     *)
(* and the temp-chat page that loads one and chats with it.                *)
(*                                                                         *)
(* JavaScript values are tagged records: [str |-> s], [bool |-> b],        *)
(* [arr |-> <<v1, ...>>] and [obj |-> << <<k1, v1>>, ... >>], an object    *)
(* keeping its members in insertion order as a JS object does.  JSON text  *)
(* is a sequence of tokens.  The primitives of tweetnacl and Web Crypto    *)
(* are ideal: a signature is the pair (signing key, message), a derived    *)
(* key the triple (password, salt, iterations), a ciphertext the triple    *)
(* (key, iv, plaintext) with the set of its flipped bits.                  *)
(***************************************************************************)
EXTENDS Integers, Sequences, FiniteSets, Bags, TLC

\* ------------------------------------------------------------------ bounds
NumKeys == 2         \* key pairs nacl.sign.keyPair() can return
CipherBits == 2      \* bits of encrypted_data that can be flipped
MaxTamper == 1       \* changes made to an envelope after it was built

None == [none |-> TRUE]

\* --------------------------------------------------------------- JS values
JStr(s) == [str |-> s]
JBool(b) == [bool |-> b]
JArr(elems) == [arr |-> elems]
JObj(members) == [obj |-> members]
JNull == [null |-> TRUE]
\* A number, by its literal: "3", "NaN", "Infinity".
JNum(literal) == [num |-> literal]

\* A string that is the base64 text of the bytes b.
B64(b) == [b64 |-> b]
\* A Uint8Array holding the content c.
U8(c) == [u8 |-> c]

IsStr(v) == DOMAIN v = {"str"}
IsB64(v) == DOMAIN v = {"b64"}
IsU8(v) == DOMAIN v = {"u8"}
IsBool(v) == DOMAIN v = {"bool"}
IsArr(v) == DOMAIN v = {"arr"}
IsObj(v) == DOMAIN v = {"obj"}
IsNull(v) == DOMAIN v = {"null"}
IsNum(v) == DOMAIN v = {"num"}
\* Number.isFinite
IsFinite(v) == IsNum(v) /\ v.num \notin {"NaN", "Infinity", "-Infinity"}

Keys(o) == [i \in 1..Len(o.obj) |-> o.obj[i][1]]
HasKey(o, k) == \E i \in 1..Len(o.obj) : o.obj[i][1] = k
Get(o, k) == o.obj[CHOOSE i \in 1..Len(o.obj) : o.obj[i][1] = k][2]

Range(s) == {s[i] : i \in 1..Len(s)}

\* ------------------------------------------------------------ the records
\* packages/crypto/src/types.ts, built in the member order of the object
\* literal of the vault wizard (create/page.tsx:73-90).
UserProfile(name, tone, domains) ==
  JObj(<< <<"display_name", JStr(name)>>,
          <<"tone", JStr(tone)>>,
          <<"domains", JArr([i \in 1..Len(domains) |-> JStr(domains[i])])>> >>)

Policies(writeback, persistence, pii) ==
  JObj(<< <<"allow_writeback", JBool(writeback)>>,
          <<"persistence", JStr(persistence)>>,
          <<"pii_handling", JStr(pii)>> >>)

DataSource(id, name, type) ==
  JObj(<< <<"id", JStr(id)>>,
          <<"name", JStr(name)>>,
          <<"type", JStr(type)>>,
          <<"config", JObj(<<>>)>> >>)

MemoryEntry(id, content, createdAt) ==
  JObj(<< <<"id", JStr(id)>>,
          <<"content", JStr(content)>>,
          <<"created_at", JStr(createdAt)>> >>)

CONTEXT_KEY_VERSION == "1.0.0"

ContextKey(id, created, profile, policies, sources, memories) ==
  JObj(<< <<"version", JStr(CONTEXT_KEY_VERSION)>>,
          <<"id", JStr(id)>>,
          <<"created_at", JStr(created)>>,
          <<"updated_at", JStr(created)>>,
          <<"profile", profile>>,
          <<"policies", policies>>,
          <<"data_sources", JArr(sources)>>,
          <<"memories", JArr(memories)>> >>)

\* The records the operations are applied to: the one the wizard builds
\* (no data sources, no memories) and one that carries both.
WizardKey ==
  ContextKey("k1", "t1", UserProfile("Ana", "concise", <<"ml">>),
             Policies(TRUE, "session", "moderate"), <<>>, <<>>)

FullKey ==
  ContextKey("k2", "t1", UserProfile("Ana", "concise", <<"ml", "db">>),
             Policies(FALSE, "ephemeral", "strict"),
             <<DataSource("d1", "notes", "notion"),
               DataSource("d2", "files", "dropbox")>>,
             <<MemoryEntry("m1", "likes tea", "t2")>>)

\* The wizard's record under another display name.
RenamedKey ==
  ContextKey("k1", "t1", UserProfile("Bob", "concise", <<"ml">>),
             Policies(TRUE, "session", "moderate"), <<>>, <<>>)

\* A data source whose config (Record<string, unknown>) holds NaN.
DataSourceWithConfig(id, name, type, config) ==
  JObj(<< <<"id", JStr(id)>>,
          <<"name", JStr(name)>>,
          <<"type", JStr(type)>>,
          <<"config", config>> >>)

\* Records holding a number that is not finite: inside the config of a
\* data source, and as a top-level member.
NestedNaNKey ==
  ContextKey("k3", "t1", UserProfile("Ana", "concise", <<"ml">>),
             Policies(TRUE, "session", "moderate"),
             <<DataSourceWithConfig("d1", "notes", "notion",
                 JObj(<< <<"weight", JNum("NaN")>> >>))>>,
             <<>>)

TopNaNKey ==
  JObj(<< <<"version", JStr(CONTEXT_KEY_VERSION)>>,
          <<"id", JStr("k4")>>,
          <<"created_at", JStr("t1")>>,
          <<"updated_at", JNum("NaN")>>,
          <<"profile", UserProfile("Ana", "concise", <<"ml">>)>>,
          <<"policies", Policies(TRUE, "session", "moderate")>>,
          <<"data_sources", JArr(<<>>)>>,
          <<"memories", JArr(<<>>)>> >>)

\* The records that conform to types.ts, and all the records.
TypedKeys == {WizardKey, RenamedKey, FullKey}
ContextKeys == TypedKeys \cup {NestedNaNKey, TopNaNKey}

SignedContextKey(data, signature, publicKey) ==
  JObj(<< <<"data", data>>,
          <<"signature", signature>>,
          <<"public_key", publicKey>> >>)

\* ------------------------------------------------------------------- JSON
\* Tokens of JSON text.
Punct(c) == [p |-> c]
StrTok(s) == [s |-> s]
B64Tok(b) == [t64 |-> b]
BoolTok(b) == [b |-> b]
NumTok(n) == [n |-> n]
NullTok == [null |-> TRUE]

\* Array.prototype.sort on the key names: code-unit order of the names that
\* occur in the records and envelopes.
KeyOrder ==
  << "allow_writeback", "config", "content", "created_at", "data",
     "data_sources", "display_name", "domains", "extra", "id", "last_accessed",
     "memories", "name", "persistence", "pii_handling", "policies",
     "profile", "public_key", "signature", "source", "tags", "tone",
     "type", "updated_at", "version" >>

SortKeys(keys) == SelectSeq(KeyOrder, LAMBDA k : k \in Range(keys))

\* Object.keys(o) with the sort left out.
UnsortedObjectKeys(o) == Keys(o)

\* Object.keys(o).sort()
SortedObjectKeys(o) == SortKeys(Keys(o))

RECURSIVE SerializeJSONProperty(_, _, _)
RECURSIVE SerializeJSONList(_, _, _, _)
RECURSIVE SerializeJSONMembers(_, _, _, _, _)

\* JSON.stringify(value, replacer) with replacer either an array of names
\* (hasList = TRUE: the PropertyList, applied to every object at every
\* depth, in the list's order) or absent (hasList = FALSE: every own
\* member, in insertion order).
SerializeJSONProperty(v, hasList, list) ==
  IF IsStr(v) THEN <<StrTok(v.str)>>
  ELSE IF IsB64(v) THEN <<B64Tok(v.b64)>>
  ELSE IF IsBool(v) THEN <<BoolTok(v.bool)>>
  ELSE IF IsNull(v) THEN <<NullTok>>
  ELSE IF IsNum(v) THEN <<IF IsFinite(v) THEN NumTok(v.num) ELSE NullTok>>
  ELSE IF IsArr(v)
    THEN <<Punct("[")>> \o SerializeJSONList(v.arr, 1, hasList, list)
                        \o <<Punct("]")>>
  ELSE LET K == IF hasList
                  THEN SelectSeq(list, LAMBDA k : HasKey(v, k))
                  ELSE Keys(v)
       IN <<Punct("{")>> \o SerializeJSONMembers(v, K, 1, hasList, list)
                         \o <<Punct("}")>>

SerializeJSONList(elems, i, hasList, list) ==
  IF i > Len(elems) THEN <<>>
  ELSE (IF i > 1 THEN <<Punct(",")>> ELSE <<>>)
       \o SerializeJSONProperty(elems[i], hasList, list)
       \o SerializeJSONList(elems, i + 1, hasList, list)

SerializeJSONMembers(o, K, i, hasList, list) ==
  IF i > Len(K) THEN <<>>
  ELSE (IF i > 1 THEN <<Punct(",")>> ELSE <<>>)
       \o <<StrTok(K[i]), Punct(":")>>
       \o SerializeJSONProperty(Get(o, K[i]), hasList, list)
       \o SerializeJSONMembers(o, K, i + 1, hasList, list)

\* JSON.stringify(value)
JSONStringify(v) == SerializeJSONProperty(v, FALSE, <<>>)

\* JSON.stringify(value, names)
JSONStringifyWithList(v, names) == SerializeJSONProperty(v, TRUE, names)

Returns(v) == [returns |-> v]
Throws(e) == [throws |-> e]
IsReturn(o) == DOMAIN o = {"returns"}
IsThrow(o) == DOMAIN o = {"throws"}

RECURSIVE ParseValue(_, _)
RECURSIVE ParseElements(_, _, _)
RECURSIVE ParseMembers(_, _, _)

ParseFail == [ok |-> FALSE]
Parsed(v, next) == [ok |-> TRUE, val |-> v, next |-> next]

ParseValue(t, i) ==
  IF i > Len(t) THEN ParseFail
  ELSE IF DOMAIN t[i] = {"s"} THEN Parsed(JStr(t[i].s), i + 1)
  ELSE IF DOMAIN t[i] = {"t64"} THEN Parsed(B64(t[i].t64), i + 1)
  ELSE IF DOMAIN t[i] = {"b"} THEN Parsed(JBool(t[i].b), i + 1)
  ELSE IF DOMAIN t[i] = {"n"} THEN Parsed(JNum(t[i].n), i + 1)
  ELSE IF DOMAIN t[i] = {"null"} THEN Parsed(JNull, i + 1)
  ELSE IF t[i] = Punct("[")
    THEN IF i + 1 <= Len(t) /\ t[i + 1] = Punct("]")
           THEN Parsed(JArr(<<>>), i + 2)
           ELSE ParseElements(t, i + 1, <<>>)
  ELSE IF t[i] = Punct("{")
    THEN IF i + 1 <= Len(t) /\ t[i + 1] = Punct("}")
           THEN Parsed(JObj(<<>>), i + 2)
           ELSE ParseMembers(t, i + 1, <<>>)
  ELSE ParseFail

ParseElements(t, i, acc) ==
  LET r == ParseValue(t, i)
  IN IF ~r.ok \/ r.next > Len(t) THEN ParseFail
     ELSE IF t[r.next] = Punct(",")
       THEN ParseElements(t, r.next + 1, Append(acc, r.val))
     ELSE IF t[r.next] = Punct("]")
       THEN Parsed(JArr(Append(acc, r.val)), r.next + 1)
     ELSE ParseFail

ParseMembers(t, i, acc) ==
  IF i + 1 > Len(t) \/ DOMAIN t[i] # {"s"} \/ t[i + 1] # Punct(":")
    THEN ParseFail
  ELSE LET r == ParseValue(t, i + 2)
       IN IF ~r.ok \/ r.next > Len(t) THEN ParseFail
          ELSE IF t[r.next] = Punct(",")
            THEN ParseMembers(t, r.next + 1, Append(acc, <<t[i].s, r.val>>))
          ELSE IF t[r.next] = Punct("}")
            THEN Parsed(JObj(Append(acc, <<t[i].s, r.val>>)), r.next + 1)
          ELSE ParseFail

\* JSON.parse(text)
JSONParse(t) ==
  LET r == ParseValue(t, 1)
  IN IF r.ok /\ r.next = Len(t) + 1 THEN Returns(r.val)
     ELSE Throws("SyntaxError")

\* ------------------------------------------------- the harness's variables
VARIABLES
  utf8Build,        \* what encodeUTF8 yields for a string argument (see below)
  keyPair,          \* the last generateKeyPair result, or None
  contextKey,       \* the record handed to the last signContextKey call
  signResult,       \* outcome of the last signContextKey call
  signSerialized,   \* its local `serialized` (crypto.ts:36)
  signedKey,        \* the SignedContextKey object the caller holds, or None
  fromSign,         \* TRUE iff signedKey was returned by signContextKey
  changes,          \* the changes made to signedKey.data since it was built
  verifyResult,     \* outcome of verifyContextKey(signedKey), or None
  verifySerialized, \* its local `serialized` (crypto.ts:60)
  encryptedKey,     \* the EncryptedContextKey blob, or None
  sealPassword,     \* the password it was sealed with
  openPassword,     \* the password of the last decryptContextKey call
  openResult,       \* its outcome, or None
  openSteps,        \* the steps it took (Steps), or None
  openVerify,       \* outcome of verifyContextKey on the opened envelope
  wrongPwSignal,    \* signal of opening the untouched blob, wrong password
  flippedSignal     \* signal of opening a bit-flipped blob, right password

libVars ==
  << utf8Build, keyPair, contextKey, signResult, signSerialized, signedKey,
     fromSign, changes, verifyResult, verifySerialized, encryptedKey,
     sealPassword, openPassword, openResult, openSteps, openVerify,
     wrongPwSignal, flippedSignal >>

\* temp-chat/page.tsx: the state of the page component.
VARIABLES
  loadedContext,   \* useState<LoadedContext | null>
  messages,        \* useState<ChatMessage[]>
  isLoading,       \* useState(false)
  showKeyLoader,   \* useState(true)
  password,        \* useState('')
  keyFile,         \* useState<File | null>
  error,           \* useState<string | null>
  loading,         \* the bag of loadContextKey calls awaiting, each with the
                   \* keyFile and password its closure captured
  loadedFrom,      \* the call that set loadedContext, or None
  inputMessage,    \* useState('')
  requests,        \* the sendMessage calls awaiting their fetch, each with
                   \* the body it posted and the session it was made in
  network,         \* the request bodies posted to /api/chat so far, in
                   \* the order of the posts
  session,         \* the number of sessions started so far
  messageSessions, \* for each element of messages, the session it is of
  messagePosts,    \* for each element of messages, the number of the post
                   \* it belongs to (as request or as reply), 0 for none
  cleared,         \* the sessions ended by clearSession
  loadCalls        \* the number of loadContextKey calls that read a file

chatVars ==
  << loadedContext, messages, isLoading, showKeyLoader, password, keyFile,
     error, loading, loadedFrom, inputMessage, requests, network, session,
     messageSessions, messagePosts, cleared, loadCalls >>

\* vault/create/page.tsx: the state of the wizard.
VARIABLES
  step,            \* useState(1)
  isGenerating,    \* useState(false)
  generatedKey,    \* useState<string | null>
  formData,        \* the values of the form's fields
  alerted,         \* the text of the last alert(), or None
  generating,      \* the onSubmit call awaiting encryptContextKey, with
                   \* its signedKey and data, or None
  downloads,       \* the files written by the download link
  pipeline,        \* the library calls the latest onSubmit made, in order
  submitted        \* the call of onSubmit that ran last, None once
                   \* another handler has run since

vaultVars ==
  << step, isGenerating, generatedKey, formData, alerted, generating,
     downloads, pipeline, submitted >>

\* Calls of encryptContextKey and decryptContextKey running side by side.
VARIABLES
  calls            \* for each call, where it stands (pc) and its
                   \* parameters and locals

callVars == << calls >>

vars == << libVars, chatVars, vaultVars, callVars >>

\* ------------------------------------------------------- tweetnacl(-util)
\* tweetnacl-util is outside this repository.  Its decodeUTF8 turns a string
\* into UTF-8 bytes and its encodeUTF8 turns bytes into a string; crypto.ts
\* hands encodeUTF8 a string (lines 37 and 61).  What that call yields is
\* decided by the library the bundle links: the published one reads the
\* string as an array of char codes and returns a string ("string"); the
\* call site is written for one that returns the UTF-8 bytes of its
\* argument ("bytes").  utf8Build is that choice, made once per run.
Utf8Builds == {"string", "bytes"}

\* String.fromCharCode over the argument read as an array: a string of the
\* same length whose content is not the argument's.
FromCharCodes(text) == [chars |-> Len(text)]

encodeUTF8(text, build) ==
  IF build = "bytes" THEN U8([utf8 |-> text]) ELSE FromCharCodes(text)

\* encodeBase64 / decodeBase64: decodeBase64 throws on text that is not
\* base64.
encodeBase64(bytes) == B64(bytes)
decodeBase64(text) ==
  IF IsB64(text) THEN Returns(text.b64) ELSE Throws("TypeError")

\* Ed25519.  A secret key is seed || public key (64 bytes), the public key
\* of seed k is pk k (32 bytes), a detached signature is 64 bytes.
Seeds == 1..NumKeys
PublicKeyOf(k) == U8([pk |-> k])
SecretKeyOf(k) == U8([seed |-> k, pk |-> k])
IsSecretKey(b) == IsU8(b) /\ DOMAIN b.u8 = {"seed", "pk"}
IsPublicKey(b) == IsU8(b) /\ DOMAIN b.u8 = {"pk"}
IsSignature(b) == IsU8(b) /\ DOMAIN b.u8 = {"signer", "msg"}

\* A key pair whose public half is not read from the secret key.
KeyPairOfFirstSeed(secretKey) ==
  IF IsSecretKey(secretKey)
    THEN Returns([publicKey |-> U8([pk |-> 1]), secretKey |-> secretKey])
    ELSE Throws("Error")

\* nacl.sign.keyPair.fromSecretKey
nacl_sign_keyPair_fromSecretKey(secretKey) ==
  IF IsSecretKey(secretKey)
    THEN Returns([publicKey |-> U8([pk |-> secretKey.u8.pk]),
                  secretKey |-> secretKey])
    ELSE Throws("Error")

\* nacl.sign.detached: checkArrayTypes(msg, secretKey), then the key size.
nacl_sign_detached(msg, secretKey) ==
  IF ~IsU8(msg) \/ ~IsU8(secretKey) THEN Throws("TypeError")
  ELSE IF ~IsSecretKey(secretKey) THEN Throws("Error")
  ELSE Returns(U8([signer |-> secretKey.u8.seed, msg |-> msg.u8]))

\* nacl.sign.detached.verify: checkArrayTypes(msg, sig, publicKey), then the
\* sizes, then the signature equation.
nacl_sign_detached_verify(msg, sig, publicKey) ==
  IF ~IsU8(msg) \/ ~IsU8(sig) \/ ~IsU8(publicKey) THEN Throws("TypeError")
  ELSE IF ~IsSignature(sig) \/ ~IsPublicKey(publicKey) THEN Throws("Error")
  ELSE Returns(sig.u8.signer = publicKey.u8.pk /\ sig.u8.msg = msg.u8)

\* ------------------------------------------------------------- crypto.ts
\* generateKeyPair, for the seed nacl.sign.keyPair() drew.
generateKeyPair(k) ==
  [publicKey |-> encodeBase64(PublicKeyOf(k)),
   privateKey |-> encodeBase64(SecretKeyOf(k))]

\* crypto.ts:36 and :60: the replacer is the sorted list of the record's
\* own top-level keys.
SerializeForSigning(data) ==
  JSONStringifyWithList(data, SortedObjectKeys(data))

\* signContextKey: [out |-> outcome, serialized |-> the local, or None].
signContextKey(data, privateKey, build) ==
  LET privateKeyBytes == decodeBase64(privateKey)
  IN IF IsThrow(privateKeyBytes) THEN [out |-> privateKeyBytes, serialized |-> None]
     ELSE
       LET pair == nacl_sign_keyPair_fromSecretKey(privateKeyBytes.returns)
       IN IF IsThrow(pair) THEN [out |-> pair, serialized |-> None]
          ELSE
            LET serialized == SerializeForSigning(data)
                message == encodeUTF8(serialized, build)
                signature == nacl_sign_detached(message, privateKeyBytes.returns)
            IN IF IsThrow(signature)
                 THEN [out |-> signature, serialized |-> serialized]
                 ELSE [out |-> Returns(SignedContextKey(
                                  data,
                                  encodeBase64(signature.returns),
                                  encodeBase64(pair.returns.publicKey))),
                       serialized |-> serialized]

\* A member of an object, undefined (None) when the object has none of
\* that name.
Member(o, k) == IF IsObj(o) /\ HasKey(o, k) THEN Get(o, k) ELSE None

\* The try block of verifyContextKey (crypto.ts:56-63): its outcome and the
\* local `serialized`, None when the block throws before line 60.  The data
\* of an envelope is an object, null or undefined; Object.keys throws a
\* TypeError for the last two.
verifyContextKeyTry(key, build) ==
  LET publicKey == decodeBase64(Member(key, "public_key"))
      signature == decodeBase64(Member(key, "signature"))
      data == Member(key, "data")
  IN IF IsThrow(publicKey) THEN [out |-> publicKey, serialized |-> None]
     ELSE IF IsThrow(signature) THEN [out |-> signature, serialized |-> None]
     ELSE IF ~IsObj(data)
       THEN [out |-> Throws("TypeError"), serialized |-> None]
     ELSE
       LET serialized == SerializeForSigning(data)
           message == encodeUTF8(serialized, build)
       IN [out |-> nacl_sign_detached_verify(
                     message, signature.returns, publicKey.returns),
           serialized |-> serialized]

\* verifyContextKey with the throw of its try block passed on.
verifyContextKeyUncaught(key, build) == verifyContextKeyTry(key, build)

\* verifyContextKey: the catch turns every throw of the try block into
\* `return false`.
verifyContextKey(key, build) ==
  LET t == verifyContextKeyTry(key, build)
  IN [out |-> IF IsThrow(t.out) THEN Returns(FALSE) ELSE t.out,
      serialized |-> t.serialized]

\* TextEncoder.encode / TextDecoder.decode on well-formed text.
TextEncode(text) == U8([utf8 |-> text])
TextDecode(bytes) == bytes.u8.utf8

\* A derivation that does not read the password.
deriveKeyWithoutPassword(passwd, salt, iters) ==
  [name |-> "PBKDF2", hash |-> "SHA-256", pw |-> TextEncode(""),
   salt |-> salt, iterations |-> iters]

\* deriveKey: PBKDF2-HMAC-SHA-256 of the password's UTF-8 bytes.  The key
\* is what crypto.subtle.deriveKey was asked for: the algorithm's name and
\* hash, the password, the salt and the iteration count.
deriveKey(passwd, salt, iters) ==
  [name |-> "PBKDF2", hash |-> "SHA-256", pw |-> TextEncode(passwd),
   salt |-> salt, iterations |-> iters]

\* crypto.subtle.encrypt / decrypt with AES-GCM: decrypt yields the
\* plaintext only under the key and iv of the encryption and with every bit
\* of the ciphertext and tag as produced; it throws OperationError
\* otherwise.
AesGcmEncrypt(key, iv, data) ==
  U8([key |-> key, iv |-> iv, pt |-> data, flipped |-> {}])

\* Decryption that does not check the authentication tag.
DecryptWithoutTag(key, iv, encrypted) ==
  IF encrypted.u8.key = key /\ encrypted.u8.iv = iv
    THEN Returns(encrypted.u8.pt)
    ELSE Throws("OperationError")

AesGcmDecrypt(key, iv, encrypted) ==
  IF encrypted.u8.key = key /\ encrypted.u8.iv = iv
     /\ encrypted.u8.flipped = {}
    THEN Returns(encrypted.u8.pt)
    ELSE Throws("OperationError")

iterations == 100000
memory == 65536
parallelism == 1

\* encryptContextKey, for the salt and iv getRandomValues drew.
encryptContextKey(key, passwd, salt, iv) ==
  LET derived == deriveKey(passwd, salt, iterations)
      data == TextEncode(JSONStringify(key))
      encrypted == AesGcmEncrypt(derived, iv, data)
  IN [encrypted_data |-> encodeBase64(encrypted),
      iv |-> encodeBase64(iv),
      salt |-> encodeBase64(salt),
      kdf_params |-> [algorithm |-> "argon2id",
                      iterations |-> iterations,
                      memory |-> memory,
                      parallelism |-> parallelism]]

\* One run of decryptContextKey: the outcome of the returned promise,
\* whether crypto.subtle.decrypt resolved (line 168) and whether JSON.parse
\* was called (line 178).
Steps(out, decrypted, parsed) ==
  [out |-> out, decrypted |-> decrypted, parsed |-> parsed]

\* A run that hands the bytes of encrypted_data to JSON.parse when the
\* decryption rejects.
decryptContextKeyParsingAnyway(blob, passwd) ==
  LET salt == decodeBase64(blob.salt)
      iv == decodeBase64(blob.iv)
      encryptedData == decodeBase64(blob.encrypted_data)
      key == deriveKey(passwd, salt.returns, blob.kdf_params.iterations)
      decrypted == AesGcmDecrypt(key, iv.returns, encryptedData.returns)
  IN IF IsThrow(decrypted)
       THEN Steps(Throws("SyntaxError"), FALSE, TRUE)
       ELSE Steps(JSONParse(TextDecode(decrypted.returns)), TRUE, TRUE)

\* A run that refuses a blob whose kdf_params.algorithm is not the label
\* encryptContextKey writes.
decryptContextKeyByLabel(blob, passwd) ==
  LET salt == decodeBase64(blob.salt)
      iv == decodeBase64(blob.iv)
      encryptedData == decodeBase64(blob.encrypted_data)
      key == deriveKey(passwd, salt.returns, blob.kdf_params.iterations)
      decrypted == AesGcmDecrypt(key, iv.returns, encryptedData.returns)
  IN IF blob.kdf_params.algorithm # "argon2id"
       THEN Steps(Throws("NotSupportedError"), FALSE, FALSE)
     ELSE IF IsThrow(decrypted) THEN Steps(decrypted, FALSE, FALSE)
     ELSE Steps(JSONParse(TextDecode(decrypted.returns)), TRUE, TRUE)

decryptContextKeyRun(blob, passwd) ==
  LET salt == decodeBase64(blob.salt)
      iv == decodeBase64(blob.iv)
      encryptedData == decodeBase64(blob.encrypted_data)
  IN IF IsThrow(salt) THEN Steps(salt, FALSE, FALSE)
     ELSE IF IsThrow(iv) THEN Steps(iv, FALSE, FALSE)
     ELSE IF IsThrow(encryptedData) THEN Steps(encryptedData, FALSE, FALSE)
     ELSE
       LET key == deriveKey(passwd, salt.returns, blob.kdf_params.iterations)
           decrypted == AesGcmDecrypt(key, iv.returns, encryptedData.returns)
       IN IF IsThrow(decrypted) THEN Steps(decrypted, FALSE, FALSE)
          ELSE Steps(JSONParse(TextDecode(decrypted.returns)), TRUE, TRUE)

\* decryptContextKey: the outcome of the returned promise.
decryptContextKey(blob, passwd) == decryptContextKeyRun(blob, passwd).out

\* -------------------------------------------------- changes to an envelope
\* What a holder of the envelope object can do to its data: assign one field
\* (`set`), exchange two elements of an array (`swap`), or rebuild the
\* record with its members inserted in the opposite order (`rekey`).
K(name) == [k |-> name]
I(index) == [i |-> index]

RECURSIVE SetAt(_, _, _)
SetAt(v, path, nv) ==
  IF path = <<>> THEN nv
  ELSE IF DOMAIN path[1] = {"k"}
    THEN IF IsObj(v) /\ HasKey(v, path[1].k)
           THEN JObj([j \in 1..Len(v.obj) |->
                       IF v.obj[j][1] = path[1].k
                         THEN <<v.obj[j][1], SetAt(v.obj[j][2], Tail(path), nv)>>
                         ELSE v.obj[j]])
           ELSE v
  ELSE IF IsArr(v) /\ path[1].i <= Len(v.arr)
    THEN JArr([j \in 1..Len(v.arr) |->
                IF j = path[1].i THEN SetAt(v.arr[j], Tail(path), nv)
                ELSE v.arr[j]])
    ELSE v

RECURSIVE GetAt(_, _)
GetAt(v, path) ==
  IF path = <<>> THEN v
  ELSE IF DOMAIN path[1] = {"k"}
    THEN IF IsObj(v) /\ HasKey(v, path[1].k)
           THEN GetAt(Get(v, path[1].k), Tail(path)) ELSE None
  ELSE IF IsArr(v) /\ path[1].i <= Len(v.arr)
    THEN GetAt(v.arr[path[1].i], Tail(path)) ELSE None

SwapFirstTwo(v) ==
  IF IsArr(v) /\ Len(v.arr) >= 2
    THEN JArr([j \in 1..Len(v.arr) |->
                IF j = 1 THEN v.arr[2] ELSE IF j = 2 THEN v.arr[1]
                ELSE v.arr[j]])
    ELSE v

RECURSIVE ReverseKeys(_)
ReverseKeys(v) ==
  IF IsObj(v)
    THEN JObj([j \in 1..Len(v.obj) |->
                <<v.obj[Len(v.obj) + 1 - j][1],
                  ReverseKeys(v.obj[Len(v.obj) + 1 - j][2])>>])
  ELSE IF IsArr(v)
    THEN JArr([j \in 1..Len(v.arr) |-> ReverseKeys(v.arr[j])])
  ELSE v

SetChange(path, val) == [kind |-> "set", path |-> path, val |-> val]
SwapChange(path) == [kind |-> "swap", path |-> path, val |-> None]
RekeyChange == [kind |-> "rekey", path |-> <<>>, val |-> None]
\* A member that types.ts does not declare is added to the object at
\* `path`.
AddChange(path, name) ==
  [kind |-> "add", path |-> Append(path, K(name)), val |-> JStr("x")]

AddMember(o, name, val) == JObj(Append(o.obj, <<name, val>>))

Changes ==
  { SetChange(<<K("id")>>, JStr("k9")),
    SetChange(<<K("updated_at")>>, JStr("t9")),
    SetChange(<<K("profile"), K("display_name")>>, JStr("Eve")),
    SetChange(<<K("profile"), K("domains"), I(1)>>, JStr("law")),
    SetChange(<<K("policies"), K("persistence")>>, JStr("permanent")),
    SetChange(<<K("data_sources"), I(1), K("name")>>, JStr("evil")),
    SetChange(<<K("data_sources"), I(1), K("id")>>, JStr("d9")),
    SetChange(<<K("memories"), I(1), K("content")>>, JStr("forged")),
    SwapChange(<<K("data_sources")>>),
    SwapChange(<<K("profile"), K("domains")>>),
    RekeyChange,
    AddChange(<<>>, "extra"),
    AddChange(<<K("profile")>>, "extra") }

ApplyChange(c, data) ==
  IF c.kind = "set"
    THEN IF GetAt(data, c.path) = None THEN data
         ELSE SetAt(data, c.path, c.val)
  ELSE IF c.kind = "swap"
    THEN IF GetAt(data, c.path) = None THEN data
         ELSE SetAt(data, c.path, SwapFirstTwo(GetAt(data, c.path)))
  ELSE IF c.kind = "add"
    THEN LET parent == SubSeq(c.path, 1, Len(c.path) - 1)
             name == c.path[Len(c.path)].k
         IN IF ~IsObj(GetAt(data, parent)) \/ HasKey(GetAt(data, parent), name)
              THEN data
              ELSE SetAt(data, parent, AddMember(GetAt(data, parent), name, c.val))
  ELSE ReverseKeys(data)

\* What can be wrong with the envelope itself when it reaches
\* verifyContextKey: a signature or public key that is not base64 text or
\* decodes to the wrong number of bytes, data that is missing or null.
DamageChange(name, val) ==
  [kind |-> "damage", path |-> <<K(name)>>, val |-> val]
DeleteChange(name) == [kind |-> "delete", path |-> <<K(name)>>, val |-> None]

Damages ==
  { DamageChange("signature", JStr("not base64!")),
    DamageChange("public_key", JStr("not base64!")),
    DamageChange("signature", encodeBase64(U8([truncated |-> "signature"]))),
    DamageChange("public_key", encodeBase64(U8([truncated |-> "public key"]))),
    DamageChange("data", JNull),
    DeleteChange("data") }

RemoveKey(o, k) == JObj(SelectSeq(o.obj, LAMBDA m : m[1] # k))

ApplyDamage(d, key) ==
  IF d.kind = "delete" THEN RemoveKey(key, d.path[1].k)
  ELSE SetAt(key, d.path, d.val)

\* The changes that leave signature, public key and the presence of data
\* alone.
DataChangesOnly ==
  \A i \in 1..Len(changes) :
    changes[i].kind \in {"set", "swap", "rekey", "add"}

\* Deep equality of two values up to the insertion order of object members.
RECURSIVE SameFields(_, _)
SameFields(a, b) ==
  IF IsObj(a)
    THEN /\ IsObj(b)
         /\ Range(Keys(a)) = Range(Keys(b))
         /\ \A k \in Range(Keys(a)) : SameFields(Get(a, k), Get(b, k))
  ELSE IF IsArr(a)
    THEN /\ IsArr(b)
         /\ Len(a.arr) = Len(b.arr)
         /\ \A j \in 1..Len(a.arr) : SameFields(a.arr[j], b.arr[j])
  ELSE a = b

\* ------------------------------------------------------------ the harness
Passwords == {"correct-horse", "wrong-password"}
\* crypto.getRandomValues(new Uint8Array(32)) and (12): two of the values
\* each can return.
Salts == {U8([random |-> n, length |-> 32]) : n \in {"r1", "r2"}}
\* getRandomValues over an array of 8 bytes.
ShortIvs == {U8([random |-> n, length |-> 8]) : n \in {"r1", "r2"}}
Ivs == {U8([random |-> n, length |-> 12]) : n \in {"r1", "r2"}}

Signal(outcome) == IF IsReturn(outcome) THEN "returned" ELSE outcome.throws
NoSignal == "none"
NoPassword == "unset"

Data(key) == Member(key, "data")
Flipped == encryptedKey.encrypted_data.b64.u8.flipped

LibInit ==
  /\ utf8Build \in Utf8Builds
  /\ keyPair = None
  /\ contextKey = None
  /\ signResult = None
  /\ signSerialized = None
  /\ signedKey = None
  /\ fromSign = FALSE
  /\ changes = <<>>
  /\ verifyResult = None
  /\ verifySerialized = None
  /\ encryptedKey = None
  /\ sealPassword = NoPassword
  /\ openPassword = NoPassword
  /\ openResult = None
  /\ openSteps = None
  /\ openVerify = None
  /\ wrongPwSignal = NoSignal
  /\ flippedSignal = NoSignal

GenerateKeyPair ==
  /\ UNCHANGED << chatVars, vaultVars, callVars >>
  /\ keyPair = None
  /\ signedKey = None
  /\ encryptedKey = None
  /\ \E k \in Seeds : keyPair' = generateKeyPair(k)
  /\ UNCHANGED << utf8Build, contextKey, signResult, signSerialized,
                  signedKey, fromSign, changes, verifyResult,
                  verifySerialized, encryptedKey, sealPassword, openPassword,
                  openResult, openSteps, openVerify, wrongPwSignal, flippedSignal >>

Sign ==
  /\ UNCHANGED << chatVars, vaultVars, callVars >>
  /\ keyPair # None
  /\ signResult = None
  /\ signedKey = None
  /\ \E r \in ContextKeys :
       LET s == signContextKey(r, keyPair.privateKey, utf8Build)
       IN /\ contextKey' = r
          /\ signResult' = s.out
          /\ signSerialized' = s.serialized
          /\ signedKey' = IF IsReturn(s.out) THEN s.out.returns ELSE None
          /\ fromSign' = IsReturn(s.out)
  /\ UNCHANGED << utf8Build, keyPair, changes, verifyResult,
                  verifySerialized, encryptedKey, sealPassword, openPassword,
                  openResult, openSteps, openVerify, wrongPwSignal, flippedSignal >>

\* An envelope built outside the library: the signature the Ed25519 signer
\* with seed 1 makes over the signing bytes of `signedOver`, wrapped around
\* `data`.
Forge ==
  /\ UNCHANGED << chatVars, vaultVars, callVars >>
  /\ keyPair = None \/ IsThrow(signResult)
  /\ signedKey = None
  /\ encryptedKey = None
  /\ \E data \in TypedKeys, signedOver \in TypedKeys :
       signedKey' =
         SignedContextKey(
           data,
           encodeBase64(U8([signer |-> 1,
                            msg |-> [utf8 |-> SerializeForSigning(signedOver)]])),
           encodeBase64(PublicKeyOf(1)))
  /\ fromSign' = FALSE
  /\ UNCHANGED << utf8Build, keyPair, contextKey, signResult, signSerialized,
                  changes, verifyResult, verifySerialized, encryptedKey,
                  sealPassword, openPassword, openResult, openSteps, openVerify,
                  wrongPwSignal, flippedSignal >>

Change ==
  /\ UNCHANGED << chatVars, vaultVars, callVars >>
  /\ signedKey # None
  /\ encryptedKey = None
  /\ Len(changes) < MaxTamper
  /\ \E c \in Changes :
       LET changed == ApplyChange(c, Data(signedKey))
       IN /\ changed # Data(signedKey)
          /\ signedKey' = SetAt(signedKey, <<K("data")>>, changed)
          /\ changes' = Append(changes, c)
  /\ verifyResult' = None
  /\ verifySerialized' = None
  /\ UNCHANGED << utf8Build, keyPair, contextKey, signResult, signSerialized,
                  fromSign, encryptedKey, sealPassword, openPassword,
                  openResult, openSteps, openVerify, wrongPwSignal, flippedSignal >>

Damage ==
  /\ UNCHANGED << chatVars, vaultVars, callVars >>
  /\ signedKey # None
  /\ encryptedKey = None
  /\ Len(changes) < MaxTamper
  /\ \E d \in Damages :
       /\ ApplyDamage(d, signedKey) # signedKey
       /\ signedKey' = ApplyDamage(d, signedKey)
       /\ changes' = Append(changes, d)
  /\ verifyResult' = None
  /\ verifySerialized' = None
  /\ UNCHANGED << utf8Build, keyPair, contextKey, signResult, signSerialized,
                  fromSign, encryptedKey, sealPassword, openPassword,
                  openResult, openSteps, openVerify, wrongPwSignal, flippedSignal >>

Verify ==
  /\ UNCHANGED << chatVars, vaultVars, callVars >>
  /\ signedKey # None
  /\ encryptedKey = None
  /\ verifyResult = None
  /\ LET v == verifyContextKey(signedKey, utf8Build)
     IN /\ verifyResult' = v.out
        /\ verifySerialized' = v.serialized
  /\ UNCHANGED << utf8Build, keyPair, contextKey, signResult, signSerialized,
                  signedKey, fromSign, changes, encryptedKey, sealPassword,
                  openPassword, openResult, openSteps, openVerify, wrongPwSignal,
                  flippedSignal >>

Encrypt ==
  /\ UNCHANGED << chatVars, vaultVars, callVars >>
  /\ signedKey # None
  /\ encryptedKey = None
  /\ changes = <<>>
  /\ \E p \in Passwords, salt \in Salts, iv \in Ivs :
       /\ encryptedKey' = encryptContextKey(signedKey, p, salt, iv)
       /\ sealPassword' = p
  /\ UNCHANGED << utf8Build, keyPair, contextKey, signResult, signSerialized,
                  signedKey, fromSign, changes, verifyResult,
                  verifySerialized, openPassword, openResult, openSteps, openVerify,
                  wrongPwSignal, flippedSignal >>

\* Texts that are not the JSON of an envelope: text that is not JSON, an
\* object without data, signature and public_key, and a JSON string.
OtherTexts ==
  { << Punct("{"), StrTok("data") >>,
    JSONStringify(JObj(<< <<"id", JStr("k1")>> >>)),
    JSONStringify(JStr("hello")) }

\* A blob of the same scheme (crypto.ts:119-147) around a given text.
SealedText(text, passwd, salt, iv) ==
  [encryptContextKey(JNull, passwd, salt, iv) EXCEPT
     !.encrypted_data =
       encodeBase64(AesGcmEncrypt(deriveKey(passwd, salt, iterations), iv,
                                  TextEncode(text)))]

\* A blob sealed outside the vault around one of these texts.
SealOther ==
  /\ UNCHANGED << chatVars, vaultVars, callVars >>
  /\ keyPair = None
  /\ signedKey = None
  /\ encryptedKey = None
  /\ \E text \in OtherTexts, p \in Passwords, salt \in Salts, iv \in Ivs :
       /\ encryptedKey' = SealedText(text, p, salt, iv)
       /\ sealPassword' = p
  /\ UNCHANGED << utf8Build, keyPair, contextKey, signResult, signSerialized,
                  signedKey, fromSign, changes, verifyResult,
                  verifySerialized, openPassword, openResult, openSteps,
                  openVerify, wrongPwSignal, flippedSignal >>

\* An envelope signed with a working Ed25519 signer over the wizard's
\* record.
ForeignEnvelope ==
  SignedContextKey(
    WizardKey,
    encodeBase64(U8([signer |-> 1,
                     msg |-> [utf8 |-> SerializeForSigning(WizardKey)]])),
    encodeBase64(PublicKeyOf(1)))

\* The salts and iteration counts of blobs that another tool sealed below
\* the limits of encryptContextKey: a salt of 8 bytes, 1000 iterations, or
\* both.
WeakParams ==
  { [salt |-> U8([random |-> "r1", length |-> 8]), iterations |-> iterations],
    [salt |-> U8([random |-> "r1", length |-> 32]), iterations |-> 1000],
    [salt |-> U8([random |-> "r1", length |-> 8]), iterations |-> 1000] }

\* A blob in the layout of EncryptedContextKey (types.ts:98-112) that
\* holds the envelope, sealed with the given salt and iteration count.
WeakBlob(envelope, passwd, salt, iv, iters) ==
  [encrypted_data |->
     encodeBase64(AesGcmEncrypt(deriveKey(passwd, salt, iters), iv,
                                TextEncode(JSONStringify(envelope)))),
   iv |-> encodeBase64(iv),
   salt |-> encodeBase64(salt),
   kdf_params |-> [algorithm |-> "argon2id",
                   iterations |-> iters,
                   memory |-> memory,
                   parallelism |-> parallelism]]

\* A caller hands decryptContextKey such a blob.
SealWeak ==
  /\ UNCHANGED << chatVars, vaultVars, callVars >>
  /\ keyPair = None
  /\ signedKey = None
  /\ encryptedKey = None
  /\ \E w \in WeakParams, p \in Passwords, iv \in Ivs :
       /\ encryptedKey' =
            WeakBlob(ForeignEnvelope, p, w.salt, iv, w.iterations)
       /\ sealPassword' = p
  /\ UNCHANGED << utf8Build, keyPair, contextKey, signResult, signSerialized,
                  signedKey, fromSign, changes, verifyResult,
                  verifySerialized, openPassword, openResult, openSteps,
                  openVerify, wrongPwSignal, flippedSignal >>

\* The members of kdf_params other than iterations, as encryptContextKey
\* writes them (crypto.ts:142-145), and other values a blob can carry in
\* their place.
Labels(blob) ==
  [algorithm |-> blob.kdf_params.algorithm,
   memory |-> blob.kdf_params.memory,
   parallelism |-> blob.kdf_params.parallelism]
WrittenLabels ==
  [algorithm |-> "argon2id", memory |-> memory, parallelism |-> parallelism]
OtherLabels ==
  { [WrittenLabels EXCEPT !.algorithm = "pbkdf2"],
    [WrittenLabels EXCEPT !.memory = 0],
    [WrittenLabels EXCEPT !.parallelism = 4] }
WithLabels(blob, labels) ==
  [blob EXCEPT !.kdf_params =
     [algorithm |-> labels.algorithm,
      iterations |-> blob.kdf_params.iterations,
      memory |-> labels.memory,
      parallelism |-> labels.parallelism]]

\* The holder of an untouched, unopened blob rewrites one of these members.
Relabel ==
  /\ UNCHANGED << chatVars, vaultVars, callVars >>
  /\ encryptedKey # None
  /\ Flipped = {}
  /\ Labels(encryptedKey) = WrittenLabels
  /\ openResult = None
  /\ wrongPwSignal = NoSignal
  /\ flippedSignal = NoSignal
  /\ \E labels \in OtherLabels :
       encryptedKey' = WithLabels(encryptedKey, labels)
  /\ openPassword' = NoPassword
  /\ openResult' = None
  /\ openSteps' = None
  /\ openVerify' = None
  /\ UNCHANGED << utf8Build, keyPair, contextKey, signResult, signSerialized,
                  signedKey, fromSign, changes, verifyResult,
                  verifySerialized, sealPassword, wrongPwSignal,
                  flippedSignal >>

\* One bit of the bytes of encrypted_data is inverted, or the inverted bit
\* is put back.
FlipBit ==
  /\ UNCHANGED << chatVars, vaultVars, callVars >>
  /\ encryptedKey # None
  /\ Labels(encryptedKey) = WrittenLabels
  /\ \E b \in 1..CipherBits :
       LET was == encryptedKey.encrypted_data.b64.u8
           now == [was EXCEPT !.flipped =
                     IF b \in @ THEN @ \ {b} ELSE @ \cup {b}]
       IN /\ Flipped \subseteq {b}
          /\ encryptedKey' =
               [encryptedKey EXCEPT !.encrypted_data = encodeBase64(U8(now))]
  /\ openPassword' = NoPassword
  /\ openResult' = None
  /\ openSteps' = None
  /\ openVerify' = None
  /\ UNCHANGED << utf8Build, keyPair, contextKey, signResult, signSerialized,
                  signedKey, fromSign, changes, verifyResult,
                  verifySerialized, sealPassword, wrongPwSignal,
                  flippedSignal >>

Decrypt ==
  /\ UNCHANGED << chatVars, vaultVars, callVars >>
  /\ encryptedKey # None
  /\ \E p \in Passwords :
       LET run == decryptContextKeyRun(encryptedKey, p)
           outcome == run.out
       IN /\ openPassword' = p
          /\ openResult' = outcome
          /\ openSteps' = [decrypted |-> run.decrypted, parsed |-> run.parsed]
          /\ wrongPwSignal' =
               IF p # sealPassword /\ Flipped = {}
                 THEN Signal(outcome) ELSE wrongPwSignal
          /\ flippedSignal' =
               IF p = sealPassword /\ Cardinality(Flipped) = 1
                 THEN Signal(outcome) ELSE flippedSignal
  /\ openVerify' = None
  /\ UNCHANGED << utf8Build, keyPair, contextKey, signResult, signSerialized,
                  signedKey, fromSign, changes, verifyResult,
                  verifySerialized, encryptedKey, sealPassword >>

VerifyOpened ==
  /\ UNCHANGED << chatVars, vaultVars, callVars >>
  /\ openResult # None
  /\ IsReturn(openResult)
  /\ openVerify = None
  /\ openVerify' = verifyContextKey(openResult.returns, utf8Build).out
  /\ UNCHANGED << utf8Build, keyPair, contextKey, signResult, signSerialized,
                  signedKey, fromSign, changes, verifyResult,
                  verifySerialized, encryptedKey, sealPassword, openPassword,
                  openResult, openSteps, wrongPwSignal, flippedSignal >>

LibNext ==
  \/ GenerateKeyPair
  \/ Sign
  \/ Forge
  \/ Change
  \/ Damage
  \/ Verify
  \/ Encrypt
  \/ SealOther
  \/ SealWeak
  \/ Relabel
  \/ FlipBit
  \/ Decrypt
  \/ VerifyOpened

\* ------------------------------------------------------ temp-chat/page.tsx
MaxCalls == 3      \* loadContextKey calls that read a file plus
                   \* sendMessage calls that posted a request
CallsMade == loadCalls + Len(network)

\* The files a user can drop: the blob a vault writes for a signed record,
\* the same with a field of the record changed before sealing, the blob of
\* a signed record that has no policies, and a file that is not JSON.
VaultEnvelope ==
  signContextKey(WizardKey, generateKeyPair(1).privateKey, "bytes")
    .out.returns

ChangedEnvelope ==
  SetAt(VaultEnvelope, <<K("data"), K("id")>>, JStr("k9"))

FilePassword == "correct-horse"
FileSalt == U8([random |-> "r1", length |-> 32])
FileIv == U8([random |-> "r1", length |-> 12])

KeyFileOf(envelope) ==
  [json |-> encryptContextKey(envelope, FilePassword, FileSalt, FileIv)]

\* An envelope another tool signed over a record without policies.
PartialEnvelope ==
  signContextKey(RemoveKey(WizardKey, "policies"),
                 generateKeyPair(1).privateKey, "bytes").out.returns

KeyFiles ==
  { KeyFileOf(VaultEnvelope), KeyFileOf(ChangedEnvelope),
    KeyFileOf(PartialEnvelope), [text |-> "garbage"] }

\* JSON.parse(await keyFile.text())
ParseKeyFile(file) ==
  IF DOMAIN file = {"json"} THEN Returns(file.json)
  ELSE Throws("SyntaxError")

MissingInput ==
  [message |-> "Please select a key file and enter your password"]
LoadFailed ==
  [message |->
     "Failed to load context key. Please check your file and password."]

SystemMessage(data) ==
  [role |-> "system",
   content |-> << "Context Key loaded for",
                  GetAt(data, <<K("profile"), K("display_name")>>).str,
                  "This session is",
                  GetAt(data, <<K("policies"), K("persistence")>>).str >>]

LoadedContext(data) ==
  [contextKey |-> data,
   displayName |-> GetAt(data, <<K("profile"), K("display_name")>>),
   tone |-> GetAt(data, <<K("profile"), K("tone")>>),
   domains |-> GetAt(data, <<K("profile"), K("domains")>>)]

\* page.tsx:77-93: what loadContextKey reads of the verified record.  A
\* record without a profile object throws a TypeError inside the argument
\* of setLoadedContext (:80-85), one without a policies object throws it
\* in the system message (:91), after setLoadedContext was called.
MissingPart(data) ==
  IF ~IsObj(Member(data, "profile")) THEN "profile"
  ELSE IF ~IsObj(Member(data, "policies")) THEN "policies"
  ELSE "none"

\* loadContextKey without its verifyContextKey check.
TryLoadWithoutVerify(file, pw, build) ==
  LET encrypted == ParseKeyFile(file)
  IN IF IsThrow(encrypted) THEN encrypted
     ELSE LET signed == decryptContextKey(encrypted.returns, pw)
          IN IF IsThrow(signed) THEN signed
             ELSE Returns(Data(signed.returns))

\* The try block of loadContextKey (page.tsx:64-101) for a captured file and
\* password: Returns(signedKey.data) when every step passes, the throw that
\* reaches the catch otherwise.
TryLoad(file, pw, build) ==
  LET encrypted == ParseKeyFile(file)
  IN IF IsThrow(encrypted) THEN encrypted
     ELSE LET signed == decryptContextKey(encrypted.returns, pw)
          IN IF IsThrow(signed) THEN signed
             ELSE LET valid == verifyContextKey(signed.returns, build).out
                  IN IF IsThrow(valid) THEN valid
                     ELSE IF ~valid.returns
                       THEN Throws("Invalid key signature")
                     ELSE Returns(Data(signed.returns))

\* sendMessage's user message, the body it posts (page.tsx:126-149: the
\* system prompt is a template around displayName, tone and domains), and
\* the two assistant messages.  The content of a message is the sequence
\* of the pieces of its text.
UserMessage(text) == [role |-> "user", content |-> <<text>>]

SystemPrompt(context) ==
  [displayName |-> context.displayName,
   tone |-> context.tone,
   domains |-> context.domains]

RequestBody(context, history, text) ==
  [system |-> SystemPrompt(context),
   history |-> SelectSeq(history, LAMBDA m : m.role # "system"),
   user |-> text]

AssistantMessage(content) == [role |-> "assistant", content |-> content]
ErrorMessage ==
  AssistantMessage(
    << "Sorry, I encountered an error processing your message.",
       "Please try again." >>)

\* What /api/chat answers: a completion for the posted messages, or a
\* status that is not ok.
Completion(body) == << "reply to", body.user >>
Responses(body) == {[ok |-> TRUE, content |-> Completion(body)], [ok |-> FALSE]}

UserTexts == {"hello"}

\* TryLoad for every file, password and build, computed once.
TryLoadOf ==
  [file \in KeyFiles, pw \in Passwords, build \in Utf8Builds |->
     TryLoad(file, pw, build)]

ChatInit ==
  /\ loadedContext = None
  /\ messages = <<>>
  /\ isLoading = FALSE
  /\ showKeyLoader = TRUE
  /\ password = ""
  /\ keyFile = None
  /\ error = None
  /\ loading = EmptyBag
  /\ loadedFrom = None
  /\ inputMessage = ""
  /\ requests = <<>>
  /\ network = <<>>
  /\ session = 0
  /\ messageSessions = <<>>
  /\ messagePosts = <<>>
  /\ cleared = {}
  /\ loadCalls = 0

\* useDropzone's onDrop (page.tsx:47-52)
DropFile ==
  /\ UNCHANGED << libVars, vaultVars, callVars >>
  /\ showKeyLoader
  /\ \E f \in KeyFiles : keyFile' = f
  /\ error' = None
  /\ UNCHANGED << loadedContext, messages, isLoading, showKeyLoader,
                  password, loading, loadedFrom, inputMessage, requests,
                  network, session, messageSessions, messagePosts,
                  cleared, loadCalls >>

\* the password input's onChange (page.tsx:252)
TypePassword ==
  /\ UNCHANGED << libVars, vaultVars, callVars >>
  /\ showKeyLoader
  /\ \E p \in Passwords \cup {""} : p # password /\ password' = p
  /\ UNCHANGED << loadedContext, messages, isLoading, showKeyLoader, keyFile,
                  error, loading, loadedFrom, inputMessage, requests,
                  network, session, messageSessions, messagePosts,
                  cleared, loadCalls >>

\* loadContextKey up to its first await, called by the Load button
\* (disabled without a file or a password, and while isLoading) or by Enter
\* in the password input (page.tsx:255-261).
LoadContextKeyStart ==
  /\ UNCHANGED << libVars, vaultVars, callVars >>
  /\ showKeyLoader
  /\ \E byButton \in BOOLEAN :
       /\ byButton => (keyFile # None /\ password # "" /\ ~isLoading)
       /\ IF keyFile = None \/ password = ""
            THEN /\ error' = MissingInput
                 /\ UNCHANGED << isLoading, loading, loadCalls >>
            ELSE /\ CallsMade < MaxCalls
                 /\ isLoading' = TRUE
                 /\ error' = None
                 /\ loading' =
                      loading (+) SetToBag({[file |-> keyFile,
                                            pw |-> password]})
                 /\ loadCalls' = loadCalls + 1
  /\ UNCHANGED << loadedContext, messages, showKeyLoader, password, keyFile,
                  loadedFrom, inputMessage, requests, network, session,
                  messageSessions, messagePosts, cleared >>

RemoveAt(seq, i) ==
  [j \in 1..(Len(seq) - 1) |-> IF j < i THEN seq[j] ELSE seq[j + 1]]

\* the rest of a loadContextKey call: try, catch and finally.
LoadContextKeySettle ==
  /\ UNCHANGED << libVars, vaultVars, callVars >>
  /\ \E call \in BagToSet(loading) :
       LET got == TryLoadOf[call.file, call.pw, utf8Build]
       IN /\ loading' = loading (-) SetToBag({call})
          /\ IF IsReturn(got) /\ MissingPart(got.returns) = "none"
               THEN /\ loadedContext' = LoadedContext(got.returns)
                    /\ messages' = <<SystemMessage(got.returns)>>
                    /\ showKeyLoader' = FALSE
                    /\ password' = ""
                    /\ keyFile' = None
                    /\ loadedFrom' = call
                    /\ session' = session + 1
                    /\ messageSessions' = <<session + 1>>
                    /\ messagePosts' = <<0>>
                    /\ UNCHANGED error
             ELSE IF IsReturn(got) /\ MissingPart(got.returns) = "policies"
               THEN /\ loadedContext' = LoadedContext(got.returns)
                    /\ loadedFrom' = call
                    /\ error' = LoadFailed
                    /\ UNCHANGED << messages, showKeyLoader, password,
                                    keyFile, session, messageSessions,
                                    messagePosts >>
               ELSE /\ error' = LoadFailed
                    /\ UNCHANGED << loadedContext, messages, showKeyLoader,
                                    password, keyFile, loadedFrom, session,
                                    messageSessions, messagePosts >>
          /\ isLoading' = FALSE
  /\ UNCHANGED << inputMessage, requests, network, cleared, loadCalls >>

\* the textarea's onChange (page.tsx:362)
TypeMessage ==
  /\ UNCHANGED << libVars, vaultVars, callVars >>
  /\ ~showKeyLoader
  /\ \E text \in UserTexts \cup {""} :
       text # inputMessage /\ inputMessage' = text
  /\ UNCHANGED << loadedContext, messages, isLoading, showKeyLoader, password,
                  keyFile, error, loading, loadedFrom, requests, network,
                  session, messageSessions, messagePosts,
                  cleared, loadCalls >>

\* sendMessage up to its await of fetch (page.tsx:110-150), called by the
\* send button (disabled on empty input and while isLoading) or by Enter
\* in the textarea (handleKeyPress).
SendMessageStart ==
  /\ UNCHANGED << libVars, vaultVars, callVars >>
  /\ ~showKeyLoader
  /\ \E byButton \in BOOLEAN :
       byButton => (inputMessage # "" /\ ~isLoading)
  /\ inputMessage # ""
  /\ loadedContext # None
  /\ CallsMade < MaxCalls
  /\ LET body == RequestBody(loadedContext, messages, inputMessage)
     IN /\ messages' = Append(messages, UserMessage(inputMessage))
        /\ messageSessions' = Append(messageSessions, session)
        /\ messagePosts' = Append(messagePosts, Len(network) + 1)
        /\ requests' = Append(requests, [body |-> body, session |-> session,
                                         post |-> Len(network) + 1])
        /\ network' = Append(network, body)
  /\ inputMessage' = ""
  /\ isLoading' = TRUE
  /\ UNCHANGED << loadedContext, showKeyLoader, password, keyFile, error,
                  loading, loadedFrom, session, cleared, loadCalls >>

\* the rest of a sendMessage call (page.tsx:152-177): the response arrives,
\* the assistant's message or the error message is appended to whatever
\* messages holds by then.
SendMessageSettle ==
  /\ UNCHANGED << libVars, vaultVars, callVars >>
  /\ \E i \in 1..Len(requests) :
       \E response \in Responses(requests[i].body) :
         /\ requests' = RemoveAt(requests, i)
         /\ messages' =
              Append(messages,
                     IF response.ok THEN AssistantMessage(response.content)
                     ELSE ErrorMessage)
         /\ messageSessions' = Append(messageSessions, requests[i].session)
         /\ messagePosts' = Append(messagePosts, requests[i].post)
  /\ isLoading' = FALSE
  /\ UNCHANGED << loadedContext, showKeyLoader, password, keyFile, error,
                  loading, loadedFrom, inputMessage, network, session,
                  cleared, loadCalls >>

\* clearSession (page.tsx:187-192), the button of the context bar.
ClearSession ==
  /\ UNCHANGED << libVars, vaultVars, callVars >>
  /\ ~showKeyLoader
  /\ loadedContext # None
  /\ loadedContext' = None
  /\ messages' = <<>>
  /\ messageSessions' = <<>>
  /\ messagePosts' = <<>>
  /\ showKeyLoader' = TRUE
  /\ error' = None
  /\ loadedFrom' = None
  /\ cleared' = cleared \cup {session}
  /\ UNCHANGED << isLoading, password, keyFile, loading, inputMessage,
                  requests, network, session, loadCalls >>

ChatNext ==
  \/ DropFile
  \/ TypePassword
  \/ LoadContextKeyStart
  \/ LoadContextKeySettle
  \/ TypeMessage
  \/ SendMessageStart
  \/ SendMessageSettle
  \/ ClearSession

\* ------------------------------------------------- shared/validation.ts
\* z.string().min(1): a string that is not empty.  The max(100) and
\* max(500) limits lie above the length of every string typed here.
NonEmptyString(v) == IsStr(v) /\ v.str # ""
\* z.array(element)
ArrayOf(v, Element(_)) ==
  IsArr(v) /\ \A i \in 1..Len(v.arr) : Element(v.arr[i])
\* z.enum(values)
EnumOf(v, values) == IsStr(v) /\ v.str \in values
\* A member declared .optional(): absent, or of the declared type.
Optional(o, k, Type(_)) == HasKey(o, k) => Type(Get(o, k))
\* A member that has to be there.
Required(o, k, Type(_)) == HasKey(o, k) /\ Type(Get(o, k))
StringArray(v) == ArrayOf(v, IsStr)

UserProfileSchema(v) ==
  /\ IsObj(v)
  /\ Required(v, "display_name", NonEmptyString)
  /\ Required(v, "tone", NonEmptyString)
  /\ Required(v, "domains", StringArray)
  /\ Len(Get(v, "domains").arr) >= 1

PersistenceValues == {"ephemeral", "session", "permanent"}
PiiValues == {"strict", "moderate", "permissive"}
IsPersistence(v) == EnumOf(v, PersistenceValues)
IsPiiHandling(v) == EnumOf(v, PiiValues)

PoliciesSchema(v) ==
  /\ IsObj(v)
  /\ Required(v, "allow_writeback", IsBool)
  /\ Required(v, "persistence", IsPersistence)
  /\ Required(v, "pii_handling", IsPiiHandling)

SourceTypes == {"google_drive", "notion", "dropbox", "local_file"}
IsSourceType(v) == EnumOf(v, SourceTypes)

DataSourceSchema(v) ==
  /\ IsObj(v)
  /\ Required(v, "id", IsStr)
  /\ Required(v, "name", NonEmptyString)
  /\ Required(v, "type", IsSourceType)
  /\ Required(v, "config", IsObj)
  /\ Optional(v, "last_accessed", IsStr)

MemoryEntrySchema(v) ==
  /\ IsObj(v)
  /\ Required(v, "id", IsStr)
  /\ Required(v, "content", NonEmptyString)
  /\ Required(v, "created_at", IsStr)
  /\ Optional(v, "tags", StringArray)
  /\ Optional(v, "source", IsStr)

DataSourceArray(v) == ArrayOf(v, DataSourceSchema)
MemoryEntryArray(v) == ArrayOf(v, MemoryEntrySchema)

\* ContextKeySchema.safeParse(v).success
ContextKeySchema(v) ==
  /\ IsObj(v)
  /\ Required(v, "version", IsStr)
  /\ Required(v, "id", IsStr)
  /\ Required(v, "created_at", IsStr)
  /\ Required(v, "updated_at", IsStr)
  /\ Required(v, "profile", UserProfileSchema)
  /\ Required(v, "policies", PoliciesSchema)
  /\ Required(v, "data_sources", DataSourceArray)
  /\ Required(v, "memories", MemoryEntryArray)

\* ------------------------------------------------- vault/create/page.tsx
\* What the user can type: display names, and passwords of which "short"
\* has fewer than the 8 characters the password field asks for.
DisplayNames == {"", "Ana", "Bob"}
VaultPasswords == {"", "short", "correct-horse", "wrong-password"}
LongEnough(p) == p \notin {"", "short"}

\* shared/constants.ts: DEFAULT_TONES[1] and DEFAULT_DOMAINS[0], the
\* defaults of the form.
DefaultTone == "Friendly and conversational"
DefaultDomain == "Software Development"
\* The options of the tone select, the texts of the custom tone, the
\* boxes ticked, and the text of the custom domains, a text being the
\* sequence of its pieces between commas.
Tones == {DefaultTone, "custom"}
CustomTones == {"", "Terse"}
DomainChoices == { <<>>, <<DefaultDomain>> }
CustomDomainTexts == { <<"">>, <<" Ops", "">> }

\* String.prototype.trim over the pieces typed.
Trim(piece) == IF piece = " Ops" THEN "Ops" ELSE piece
\* page.tsx:67-70: the boxes ticked, then the trimmed pieces of a custom
\* text that is not empty.
AllDomains(data) ==
  IF data.custom_domains = <<"">>
    THEN data.domains
  ELSE data.domains \o
         [i \in 1..Len(data.custom_domains) |-> Trim(data.custom_domains[i])]

\* new Date().toISOString() at the instants of the clock, in order.
Instants == << "2026-01-01T00:00:00.000Z", "2026-01-01T00:00:00.001Z" >>
InstantOf(iso) == CHOOSE n \in 1..Len(Instants) : Instants[n] = iso

PasswordsDoNotMatch == [message |-> "Passwords do not match"]
GenerateFailed == [message |-> "Failed to generate key. Please try again."]

\* The record onSubmit builds from the form (page.tsx:73-90), its two
\* timestamps read from the clock one after the other.
FormKey(data, created, updated) ==
  JObj(<< <<"version", JStr(CONTEXT_KEY_VERSION)>>,
          <<"id", JStr("k1")>>,
          <<"created_at", JStr(Instants[created])>>,
          <<"updated_at", JStr(Instants[updated])>>,
          <<"profile",
            UserProfile(data.display_name,
                        IF data.tone = "custom" THEN data.custom_tone
                                                ELSE data.tone,
                        AllDomains(data))>>,
          <<"policies", Policies(TRUE, "session", "moderate")>>,
          <<"data_sources", JArr(<<>>)>>,
          <<"memories", JArr(<<>>)>> >>)

\* The file name of the download (page.tsx:104).
Filename(data) == [filename |-> data.display_name]

\* The envelope handed on without a signature.
UnsignedForSealing(record, privateKey, build) ==
  Returns(JObj(<< <<"data", record>> >>))

\* page.tsx:94: what onSubmit hands to encryptContextKey.
SignedForSealing(record, privateKey, build) ==
  signContextKey(record, privateKey, build).out

\* A comparison that lets every pair of passwords through.
PasswordsAlwaysMatch(data) == TRUE

\* page.tsx:58: the two passwords of the form are the same.
PasswordsMatch(data) == data.password = data.confirm_password

VaultInit ==
  /\ step = 1
  /\ isGenerating = FALSE
  /\ generatedKey = None
  /\ formData = [display_name |-> "", tone |-> DefaultTone,
                 custom_tone |-> "", domains |-> <<DefaultDomain>>,
                 custom_domains |-> <<"">>,
                 password |-> "", confirm_password |-> ""]
  /\ alerted = None
  /\ generating = None
  /\ downloads = {}
  /\ pipeline = <<>>
  /\ submitted = None

\* The inputs of the step shown (page.tsx:160-348); the custom tone has an
\* input only while the select shows "custom".  The user types between
\* submissions, not during the moment a generation is in flight.
EditForm ==
  /\ UNCHANGED << libVars, chatVars, callVars >>
  /\ generating = None
  /\ \/ /\ step = 1
        /\ \E name \in DisplayNames :
             /\ name # formData.display_name
             /\ formData' = [formData EXCEPT !.display_name = name]
     \/ /\ step = 1
        /\ \E tone \in Tones :
             /\ tone # formData.tone
             /\ formData' = [formData EXCEPT !.tone = tone]
     \/ /\ step = 1
        /\ formData.tone = "custom"
        /\ \E text \in CustomTones :
             /\ text # formData.custom_tone
             /\ formData' = [formData EXCEPT !.custom_tone = text]
     \/ /\ step = 1
        /\ \E ticked \in DomainChoices :
             /\ ticked # formData.domains
             /\ formData' = [formData EXCEPT !.domains = ticked]
     \/ /\ step = 1
        /\ \E text \in CustomDomainTexts :
             /\ text # formData.custom_domains
             /\ formData' = [formData EXCEPT !.custom_domains = text]
     \/ /\ step = 3
        /\ \E p \in VaultPasswords :
             /\ p # formData.password
             /\ formData' = [formData EXCEPT !.password = p]
     \/ /\ step = 3
        /\ \E p \in VaultPasswords :
             /\ p # formData.confirm_password
             /\ formData' = [formData EXCEPT !.confirm_password = p]
  /\ submitted' = None
  /\ UNCHANGED << step, isGenerating, generatedKey, alerted, generating,
                  downloads, pipeline >>

\* The Previous button (page.tsx:387-392), disabled on step 1 only.
PreviousStep ==
  /\ UNCHANGED << libVars, chatVars, callVars >>
  /\ step \in 2..3
  /\ step' = step - 1
  /\ submitted' = None
  /\ UNCHANGED << isGenerating, generatedKey, formData, alerted, generating,
                  downloads, pipeline >>

\* handleSubmit's validation of the fields of the step shown.
FormValid ==
  /\ step = 1 => formData.display_name # ""
  /\ step = 3 => /\ LongEnough(formData.password)
                 /\ formData.confirm_password # ""

\* What a call of onSubmit was given and what it handed to signContextKey.
Submitted(atStep, data, record) ==
  [step |-> atStep, data |-> data, record |-> record]

\* onSubmit up to its await (page.tsx:52-97), by the submit button, which
\* is disabled while isGenerating.
OnSubmitStart ==
  /\ UNCHANGED << libVars, chatVars, callVars >>
  /\ step < 4
  /\ ~isGenerating
  /\ FormValid
  /\ IF step < 3
       THEN /\ step' = step + 1
            /\ pipeline' = <<>>
            /\ submitted' = Submitted(step, formData, None)
            /\ UNCHANGED << isGenerating, alerted, generating >>
     ELSE IF ~PasswordsMatch(formData)
       THEN /\ alerted' = PasswordsDoNotMatch
            /\ pipeline' = <<>>
            /\ submitted' = Submitted(step, formData, None)
            /\ UNCHANGED << step, isGenerating, generating >>
     ELSE \E k \in Seeds, created \in 1..Len(Instants),
             updated \in 1..Len(Instants) :
            LET keys == generateKeyPair(k)
                record == FormKey(formData, created, updated)
                signed == SignedForSealing(record, keys.privateKey, utf8Build)
            IN /\ created <= updated
               /\ submitted' = Submitted(step, formData, record)
               /\ IF IsThrow(signed)
                    THEN /\ alerted' = GenerateFailed
                         /\ pipeline' =
                              << "generateKeyPair", "signContextKey" >>
                         /\ UNCHANGED << step, isGenerating, generating >>
                    ELSE /\ isGenerating' = TRUE
                         /\ generating' = [signedKey |-> signed.returns,
                                           data |-> formData]
                         /\ pipeline' =
                              << "generateKeyPair", "signContextKey",
                                 "encryptContextKey" >>
                         /\ UNCHANGED << step, alerted >>
  /\ UNCHANGED << generatedKey, formData, downloads >>

\* The rest of onSubmit (page.tsx:97-121): encryptContextKey resolves and
\* the blob is written to the download.
OnSubmitSettle ==
  /\ UNCHANGED << libVars, chatVars, callVars >>
  /\ generating # None
  /\ \E salt \in Salts, iv \in Ivs :
       downloads' = downloads \cup
         { [file |-> Filename(generating.data),
            json |-> encryptContextKey(generating.signedKey,
                                       generating.data.password, salt, iv)] }
  /\ generatedKey' = Filename(generating.data)
  /\ step' = 4
  /\ isGenerating' = FALSE
  /\ generating' = None
  /\ UNCHANGED << formData, alerted, pipeline, submitted >>

VaultNext ==
  \/ EditForm
  \/ PreviousStep
  \/ OnSubmitStart
  \/ OnSubmitSettle

\* --------------------------------------- concurrent calls of crypto.ts
NumCalls == 2      \* calls of encryptContextKey / decryptContextKey

CallIds == 1..NumCalls
Idle == [pc |-> "idle"]
InFlightCalls == {i \in CallIds : calls[i].pc \in {"derive", "crypt"}}

\* The blobs handed to decryptContextKey: one a vault wrote, and one whose
\* iv is not base64.
SealedBlob == KeyFileOf(VaultEnvelope).json
OpenArgs == { SealedBlob, [SealedBlob EXCEPT !.iv = JStr("%")] }

\* One `key` for the module: every call reads the key of the first of
\* the calls that hold one.
KeyOfFirstCall(cs, i) ==
  LET holders == {j \in CallIds : cs[j].pc = "crypt"}
  IN cs[CHOOSE j \in holders : \A k \in holders : j <= k].key

\* The local `key` of a call (crypto.ts:123, :165).
KeyOf(cs, i) == cs[i].key

CallInit == calls = [i \in CallIds |-> Idle]

\* encryptContextKey up to its await of deriveKey (crypto.ts:114-123).
CallEncrypt(i) ==
  /\ calls[i].pc = "idle"
  /\ \E p \in Passwords, salt \in Salts, iv \in Ivs :
       calls' = [j \in CallIds |->
         IF j = i
           THEN [pc |-> "derive", op |-> "encryptContextKey",
                 arg |-> VaultEnvelope, password |-> p,
                 salt |-> salt, iv |-> iv, iterations |-> iterations,
                 overlapped |-> InFlightCalls # {}]
         ELSE IF j \in InFlightCalls
           THEN [calls[j] EXCEPT !.overlapped = TRUE]
         ELSE calls[j]]

\* decryptContextKey up to its await of deriveKey (crypto.ts:156-165);
\* decodeBase64 throws before any await.
CallDecrypt(i) ==
  /\ calls[i].pc = "idle"
  /\ \E blob \in OpenArgs, p \in Passwords :
       LET salt == decodeBase64(blob.salt)
           iv == decodeBase64(blob.iv)
           encryptedData == decodeBase64(blob.encrypted_data)
           thrown == IF IsThrow(salt) THEN salt
                     ELSE IF IsThrow(iv) THEN iv
                     ELSE IF IsThrow(encryptedData) THEN encryptedData
                     ELSE None
       IN calls' = [j \in CallIds |->
            IF j = i
              THEN IF thrown # None
                     THEN [pc |-> "done", op |-> "decryptContextKey",
                           arg |-> blob, password |-> p,
                           overlapped |-> InFlightCalls # {},
                           result |-> thrown]
                   ELSE [pc |-> "derive", op |-> "decryptContextKey",
                         arg |-> blob, password |-> p,
                         salt |-> salt.returns, iv |-> iv.returns,
                         encryptedData |-> encryptedData.returns,
                         iterations |-> blob.kdf_params.iterations,
                         overlapped |-> InFlightCalls # {}]
            ELSE IF j \in InFlightCalls
              THEN [calls[j] EXCEPT !.overlapped = TRUE]
            ELSE calls[j]]

\* deriveKey resolves (crypto.ts:76-106) and the call goes on to its
\* crypto.subtle.encrypt or decrypt.
DeriveResolves(i) ==
  /\ calls[i].pc = "derive"
  /\ calls' = [calls EXCEPT ![i] =
       [pc |-> "crypt", op |-> calls[i].op, arg |-> calls[i].arg,
        password |-> calls[i].password, salt |-> calls[i].salt,
        iv |-> calls[i].iv, iterations |-> calls[i].iterations,
        overlapped |-> calls[i].overlapped,
        encryptedData |->
          IF calls[i].op = "decryptContextKey" THEN calls[i].encryptedData
          ELSE None,
        key |-> deriveKey(calls[i].password, calls[i].salt,
                          calls[i].iterations)]]

\* What the call returns once crypto.subtle.encrypt (crypto.ts:131-147) or
\* decrypt (:168-178) resolves.
CallResult(cs, i) ==
  IF cs[i].op = "encryptContextKey"
    THEN LET data == TextEncode(JSONStringify(cs[i].arg))
             encrypted == AesGcmEncrypt(KeyOf(cs, i), cs[i].iv, data)
         IN Returns([encrypted_data |-> encodeBase64(encrypted),
                     iv |-> encodeBase64(cs[i].iv),
                     salt |-> encodeBase64(cs[i].salt),
                     kdf_params |-> [algorithm |-> "argon2id",
                                     iterations |-> cs[i].iterations,
                                     memory |-> memory,
                                     parallelism |-> parallelism]])
  ELSE LET decrypted ==
             AesGcmDecrypt(KeyOf(cs, i), cs[i].iv, cs[i].encryptedData)
       IN IF IsThrow(decrypted) THEN decrypted
          ELSE JSONParse(TextDecode(decrypted.returns))

CryptResolves(i) ==
  /\ calls[i].pc = "crypt"
  /\ calls' = [calls EXCEPT ![i] =
       [pc |-> "done", op |-> calls[i].op, arg |-> calls[i].arg,
        password |-> calls[i].password, salt |-> calls[i].salt,
        iv |-> calls[i].iv, overlapped |-> calls[i].overlapped,
        result |-> CallResult(calls, i)]]

CallNext ==
  /\ UNCHANGED << libVars, chatVars, vaultVars >>
  /\ \E i \in CallIds :
       \/ CallEncrypt(i)
       \/ CallDecrypt(i)
       \/ DeriveResolves(i)
       \/ CryptResolves(i)

\* --------------------------------------------------------- specifications
\* Spec: the library's operations applied to bounded inputs.
Init == LibInit /\ ChatInit /\ VaultInit /\ CallInit
Next == LibNext
Spec == Init /\ [][Next]_vars

\* SpecChat: the temp-chat page.
SpecChat == Init /\ [][ChatNext]_vars

\* SpecVault: the vault's key creation wizard.
SpecVault == Init /\ [][VaultNext]_vars

\* SpecCalls: calls of the library in flight together.
SpecCalls == Init /\ [][CallNext]_vars

\* ------------------------------------------------------------- the claims
Unchanged == changes = <<>>
Opened == openResult # None
OpenedUntouchedWithSealPassword ==
  Opened /\ openPassword = sealPassword /\ Flipped = {}

\* C1: round trip.  Signing a record, encrypting the envelope with a
\* password and decrypting the blob with the same password yields an
\* envelope whose data deep-equals the record and which verifies.
C1_RoundTrip ==
  /\ signResult # None => IsReturn(signResult)
  /\ (fromSign /\ Unchanged /\ OpenedUntouchedWithSealPassword) =>
       /\ IsReturn(openResult)
       /\ Data(openResult.returns) = contextKey
       /\ openVerify # None => openVerify = Returns(TRUE)

C3_WrongPasswordFails ==
  (Opened /\ openPassword # sealPassword)
    => openResult = Throws("OperationError")

C3_Witness ==
  /\ Opened /\ openPassword # sealPassword /\ Flipped = {}
  /\ openResult = Throws("OperationError")

\* C4: signContextKey returns an envelope for every record and generated
\* key pair, and verifyContextKey returns true for that envelope.
C4_SignThenVerify ==
  /\ signResult # None => IsReturn(signResult)
  /\ (fromSign /\ Unchanged /\ verifyResult # None)
       => verifyResult = Returns(TRUE)

\* C5: whenever decryptContextKey decrypts and parses an envelope whose
\* signature does not verify, the outcome it reports is a SignatureError.
C5_OpenReportsSignatureError ==
  openVerify = Returns(FALSE) => openResult = Throws("SignatureError")

\* C7: the serialization signer and verifier compute differs for any two
\* records that differ in a field or in the order of an array's elements.
C7_SerializationInjective ==
  (signSerialized # None /\ verifySerialized # None /\ signedKey # None
     /\ ~SameFields(contextKey, Data(signedKey)))
    => signSerialized # verifySerialized

C9_FlippedBitIndistinguishable ==
  /\ flippedSignal # NoSignal => flippedSignal = "OperationError"
  /\ (flippedSignal # NoSignal /\ wrongPwSignal # NoSignal)
       => flippedSignal = wrongPwSignal

C9_Witness ==
  /\ flippedSignal = "OperationError"
  /\ wrongPwSignal = "OperationError"
  /\ Opened /\ Cardinality(Flipped) = 1 /\ openPassword = sealPassword

\* The key derivation that sealed the blob, read off its ciphertext.
SealKey == encryptedKey.encrypted_data.b64.u8.key

\* C11: the kdf_params recorded in a blob name the key derivation that was
\* executed when it was sealed: the algorithm identifier is that of the
\* derivation that ran, and the iteration count is the one it ran with.
C11_KdfParamsMatchDerivation ==
  encryptedKey # None =>
    /\ encryptedKey.kdf_params.iterations = SealKey.iterations
    /\ encryptedKey.kdf_params.algorithm = SealKey.name

\* C12: a blob encryptContextKey emitted has exactly the fields encrypted_data, iv, salt and
\* kdf_params {algorithm, iterations, memory, parallelism}; its iv is 12
\* bytes, its salt 32 bytes, and kdf_params.iterations is at least 100000.
C12_BlobShape ==
  (encryptedKey # None /\ signedKey # None) =>
    /\ DOMAIN encryptedKey = {"encrypted_data", "iv", "salt", "kdf_params"}
    /\ DOMAIN encryptedKey.kdf_params =
         {"algorithm", "iterations", "memory", "parallelism"}
    /\ IsReturn(decodeBase64(encryptedKey.iv))
    /\ decodeBase64(encryptedKey.iv).returns.u8.length = 12
    /\ IsReturn(decodeBase64(encryptedKey.salt))
    /\ decodeBase64(encryptedKey.salt).returns.u8.length = 32
    /\ encryptedKey.kdf_params.iterations >= 100000

C12_Witness ==
  /\ fromSign
  /\ encryptedKey # None
  /\ Flipped = {}
  /\ encryptedKey.kdf_params.iterations = 100000

Damaged == Len(changes) > 0 /\ ~DataChangesOnly

\* C13: verifyContextKey never throws; for an envelope whose signature or
\* public key is not base64 or has the wrong length, or whose data is
\* missing or null, it returns false.
C13_VerifyNeverThrows ==
  /\ verifyResult # None => IsReturn(verifyResult)
  /\ openVerify # None => IsReturn(openVerify)
  /\ (verifyResult # None /\ Damaged) => verifyResult = Returns(FALSE)

C13_Witness ==
  /\ Len(changes) = 1
  /\ changes[1] = DeleteChange("data")
  /\ verifyResult = Returns(FALSE)

RECURSIVE HasNonFinite(_)
HasNonFinite(v) ==
  IF IsNum(v) THEN ~IsFinite(v)
  ELSE IF IsArr(v) THEN \E j \in 1..Len(v.arr) : HasNonFinite(v.arr[j])
  ELSE IF IsObj(v) THEN \E j \in 1..Len(v.obj) : HasNonFinite(v.obj[j][2])
  ELSE FALSE

\* C16: signContextKey rejects a record that holds NaN or another
\* non-finite number anywhere with a ValidationError; it never signs an
\* altered or truncated form of it.
C16_NonFiniteRejected ==
  (signResult # None /\ HasNonFinite(contextKey))
    => signResult = Throws("ValidationError")

\* C19: when the AES-GCM decryption fails, decryptContextKey ends with the
\* authentication failure and JSON.parse is never called; JSON.parse is
\* called only after a decryption that succeeded.
C19_NoParseAfterFailedDecrypt ==
  Opened =>
    /\ openSteps.parsed => openSteps.decrypted
    /\ ~openSteps.decrypted =>
         /\ openResult = Throws("OperationError")
         /\ ~openSteps.parsed
    /\ (openPassword # sealPassword \/ Flipped # {}) => ~openSteps.decrypted

C19_Witness ==
  /\ Opened
  /\ Flipped # {}
  /\ openPassword = sealPassword
  /\ ~openSteps.decrypted
  /\ ~openSteps.parsed
  /\ openResult = Throws("OperationError")

\* The text a blob was sealed around, and whether it is the JSON of an
\* object with data, signature and public_key.
SealedPlaintext == TextDecode(encryptedKey.encrypted_data.b64.u8.pt)
IsEnvelopeText(text) ==
  LET parsed == JSONParse(text)
  IN /\ IsReturn(parsed)
     /\ IsObj(parsed.returns)
     /\ HasKey(parsed.returns, "data")
     /\ HasKey(parsed.returns, "signature")
     /\ HasKey(parsed.returns, "public_key")

\* C20: when the decryption succeeds and the plaintext is not the JSON of
\* an envelope (not JSON at all, or JSON without data, signature or
\* public_key), decryptContextKey fails with a FormatError and returns no
\* value.
C20_FormatErrorOnNonEnvelope ==
  (Opened /\ openSteps.decrypted /\ ~IsEnvelopeText(SealedPlaintext))
    => openResult = Throws("FormatError")

\* The values of the profile fields of a record, and the values a request
\* body carries in its system prompt.
ProfileValues(data) ==
  {GetAt(data, <<K("profile"), K("display_name")>>),
   GetAt(data, <<K("profile"), K("tone")>>)}
    \cup Range(GetAt(data, <<K("profile"), K("domains")>>).arr)

BodyValues(body) ==
  {body.system.displayName, body.system.tone}
    \cup Range(body.system.domains.arr)

DownloadedPlaintext(d) == TextDecode(d.json.encrypted_data.b64.u8.pt)

BlobSalt == decodeBase64(encryptedKey.salt).returns
BlobIterations == encryptedKey.kdf_params.iterations

\* C21: every key derivation uses a salt of 32 bytes and at least 100000
\* iterations: encryptContextKey seals with such, and decryptContextKey
\* neither decrypts nor returns an envelope for a blob whose salt or
\* iteration count is outside these limits.
C21_DerivationLimits ==
  /\ (encryptedKey # None /\ signedKey # None) =>
       /\ SealKey.salt.u8.length = 32
       /\ SealKey.iterations >= 100000
  /\ (Opened /\ (BlobSalt.u8.length # 32 \/ BlobIterations < 100000)) =>
       /\ IsThrow(openResult)
       /\ ~openSteps.decrypted

C26_LabelsIgnored ==
  Opened =>
    openResult =
      decryptContextKey(WithLabels(encryptedKey, WrittenLabels), openPassword)

C26_Witness ==
  /\ Opened
  /\ Labels(encryptedKey) # WrittenLabels
  /\ IsReturn(openResult)

\* The record the last call of onSubmit handed to signContextKey.
Handed == submitted # None /\ submitted.record # None

\* C24: every record the wizard hands to signContextKey is valid: its
\* version is not empty, updated_at is not before created_at, and it
\* passes ContextKeySchema (display_name and tone not empty, at least one
\* domain, valid list elements), whatever the form let through.
C24_SignedRecordsValid ==
  Handed =>
    /\ Get(submitted.record, "version").str # ""
    /\ InstantOf(Get(submitted.record, "updated_at").str)
         >= InstantOf(Get(submitted.record, "created_at").str)
    /\ ContextKeySchema(submitted.record)

MismatchSubmitted ==
  /\ submitted # None
  /\ submitted.step = 3
  /\ submitted.data.password # submitted.data.confirm_password
\* The last call of onSubmit threw while generating.
GenerationThrew ==
  /\ submitted # None
  /\ submitted.record # None
  /\ alerted = GenerateFailed
  /\ generating = None

\* C29: a step-3 submission whose passwords differ makes no library call,
\* downloads nothing and leaves step 3, isGenerating false and
\* generatedKey null; a submission whose generation throws leaves step 3
\* and isGenerating false as well.
C29_FailedSubmissionLeavesWizard ==
  /\ MismatchSubmitted =>
       /\ pipeline = <<>>
       /\ generating = None
       /\ downloads = {}
       /\ step = 3
       /\ ~isGenerating
       /\ generatedKey = None
       /\ alerted = PasswordsDoNotMatch
  /\ GenerationThrew =>
       /\ step = 3
       /\ ~isGenerating
       /\ generatedKey = None

C29_Witness == MismatchSubmitted /\ alerted = PasswordsDoNotMatch

\* A loadContextKey call ended in its catch block.
LoadAttemptFailed ==
  BagCardinality(loading') < BagCardinality(loading) /\ session' = session

InFlight == BagCardinality(loading) + Len(requests)

\* C27: in temp-chat isLoading is true whenever a loadContextKey or a
\* sendMessage call is in flight, and at most one is in flight at a time.
C27_OneCallInFlight ==
  /\ InFlight >= 1 => isLoading
  /\ InFlight <= 1

\* The positions in messages of the assistant's messages.
AssistantAt == {i \in 1..Len(messages) : messages[i].role = "assistant"}

Alone(c) ==
  IF c.op = "encryptContextKey"
    THEN Returns(encryptContextKey(c.arg, c.password, c.salt, c.iv))
  ELSE decryptContextKey(c.arg, c.password)

\* C23: calls of encryptContextKey and decryptContextKey share no mutable
\* state: however their steps interleave, each call returns what it
\* returns when run alone on its arguments (and its random draws).
C23_CallsIndependent ==
  \A i \in CallIds :
    calls[i].pc = "done" => calls[i].result = Alone(calls[i])

C23_Witness ==
  \E i \in CallIds : \E j \in CallIds :
    /\ i # j
    /\ calls[i].pc = "done" /\ calls[j].pc = "done"
    /\ calls[i].overlapped /\ calls[j].overlapped
    /\ calls[i].op = "encryptContextKey"
    /\ calls[j].op = "decryptContextKey"
    /\ calls[i].password # calls[j].password
    /\ IsReturn(calls[j].result)
====
